---- MODULE Spec2Model ----
(***************************************************************************)
(* A model of the YDbf DBF reader (ydbfdm/reader.py, ydbfdm/lib.py).       *)
(*                                                                         *)
(* Bytes are integers 0..255, byte strings are sequences of bytes, text    *)
(* is a sequence of code points.  Python's None is written "None" for a    *)
(* string-valued attribute, <<>> for a list-valued one and NoneArg for an  *)
(* optional integer argument.                                              *)
(*                                                                         *)
(* A file is described the way _readHeader cuts it up: the 32 header bytes *)
(* (already split by struct.unpack into their fields), the 32-byte chunks  *)
(* that follow and are read as field descriptors, and `rest`, the bytes    *)
(* after the descriptor table (terminator, records, end-of-file marker).   *)
(***************************************************************************)
EXTENDS Integers, Sequences, FiniteSets, TLC

VARIABLES
    input,      \* the file and the constructor's arguments (never changes)
    pc,         \* where the constructor stands: new, readHeader, ..., ready, failed
    err,        \* the exception that left the constructor, or NoErr
    reader,     \* the attributes of the YDbfReader instance (self.*)
    pos,        \* position of the file handle self.fh
    gens,       \* the generator objects created by records()
    visits,     \* the record slots read by the latest step of a generator
    dbf_str,    \* lib.dbf2date: the argument
    result      \* lib.dbf2date: what the call produced

vars == <<input, pc, err, reader, pos, gens, visits, dbf_str, result>>

----------------------------------------------------------------------------
(* lib.py: the format catalog *)

CHAR == "C"
NUMERAL == "N"
DATE == "D"
LOGICAL == "L"

ENCODINGS ==
    (0 :> "ascii") @@ (1 :> "cp437") @@ (2 :> "cp850") @@ (3 :> "cp1252") @@
    (4 :> "mac_roman") @@ (100 :> "cp852") @@ (101 :> "cp866") @@
    (102 :> "cp865") @@ (103 :> "cp861") @@ (106 :> "cp737") @@
    (107 :> "cp857") @@ (150 :> "mac_cyrillic") @@ (151 :> "mac_latin2") @@
    (152 :> "mac_greek") @@ (200 :> "cp1250") @@ (201 :> "cp1251") @@
    (202 :> "cp1254") @@ (203 :> "cp1253") @@ (77 :> "cp936") @@
    (122 :> "cp936")

\* a variant that also lets FoxBase (0x02) through
SUPPORTED_SIGNATURES_Wide == {2, 3, 4, 5}

SUPPORTED_SIGNATURES == {3, 4, 5}

\* calcsize(HEADER_FORMAT) = calcsize(FIELD_DESCRIPTION_FORMAT) = 32
HeaderSize == 32

----------------------------------------------------------------------------
(* Python values *)

NoErr == [cls |-> "None", at |-> "None"]

Raise(cls, at) == [cls |-> cls, at |-> at]

NoneArg == [isNone |-> TRUE, v |-> 0]

Some(n) == [isNone |-> FALSE, v |-> n]

\* truth value of a str-or-None: None and "" are false
Truthy(s) == s # "None" /\ s # ""

IsDigit(b) == b \in 48..57

RECURSIVE RStripSet(_, _)
RStripSet(s, drop) ==
    IF s = <<>> THEN <<>>
    ELSE IF s[Len(s)] \in drop THEN RStripSet(SubSeq(s, 1, Len(s) - 1), drop)
    ELSE s

RECURSIVE LStripSet(_, _)
LStripSet(s, drop) ==
    IF s = <<>> THEN <<>>
    ELSE IF s[1] \in drop THEN LStripSet(Tail(s), drop)
    ELSE s

\* the bytes that bytes.strip() and bytes.rstrip() remove by default
Whitespace == {32, 9, 10, 11, 12, 13}

RStrip(s) == RStripSet(s, Whitespace)

Strip(s) == LStripSet(RStripSet(s, Whitespace), Whitespace)

\* bytes.isdigit(): non-empty and every byte an ASCII digit
IsDigitBytes(s) == s # <<>> /\ \A k \in 1..Len(s) : IsDigit(s[k])

RECURSIVE DigitsValue(_)
DigitsValue(s) ==
    IF s = <<>> THEN 0
    ELSE 10 * DigitsValue(SubSeq(s, 1, Len(s) - 1)) + (s[Len(s)] - 48)

RECURSIVE SumSizes(_)
SumSizes(fs) == IF fs = <<>> THEN 0 ELSE fs[1][3] + SumSizes(Tail(fs))

----------------------------------------------------------------------------
(* datetime.date(year, month, day): the dates the constructor accepts *)

IsLeap(y) == (y % 4 = 0 /\ y % 100 # 0) \/ y % 400 = 0

DaysInMonth(y, m) ==
    IF m = 2 THEN (IF IsLeap(y) THEN 29 ELSE 28)
    ELSE IF m \in {4, 6, 9, 11} THEN 30 ELSE 31

ValidDate(y, m, d) ==
    /\ y \in 1..9999
    /\ m \in 1..12
    /\ d \in 1..DaysInMonth(y, m)

----------------------------------------------------------------------------
(* lib.dbf2date *)

\* a variant that tests the length only
dbf2date_NoDigitTest(s) ==
    IF s.isNone \/ Len(s.v) # 8
    THEN [raised |-> "None", value |-> <<>>]
    ELSE LET y == DigitsValue(SubSeq(s.v, 1, 4))
             m == DigitsValue(SubSeq(s.v, 5, 6))
             d == DigitsValue(SubSeq(s.v, 7, 8))
         IN IF ValidDate(y, m, d)
            THEN [raised |-> "None", value |-> <<y, m, d>>]
            ELSE [raised |-> "ValueError", value |-> <<>>]

\* s is [isNone, v]: None or a byte string.  The result is the date
\* <<year, month, day>>, or <<>> for None, or the exception datetime.date
\* raises for digits that are no calendar date.
dbf2date(s) ==
    IF s.isNone \/ ~IsDigitBytes(s.v) \/ Len(s.v) # 8
    THEN [raised |-> "None", value |-> <<>>]
    ELSE LET y == DigitsValue(SubSeq(s.v, 1, 4))
             m == DigitsValue(SubSeq(s.v, 5, 6))
             d == DigitsValue(SubSeq(s.v, 7, 8))
         IN IF ValidDate(y, m, d)
            THEN [raised |-> "None", value |-> <<y, m, d>>]
            ELSE [raised |-> "ValueError", value |-> <<>>]

----------------------------------------------------------------------------
(* YDbfReader._readHeader: the pieces *)

\* a variant that also moves 1950 itself
NormYear_OffByOne(y) ==
    LET year == y + 1900
    IN IF year <= 1950 THEN year + 100 ELSE year

\* lines 146-149: the creation year from the header's year byte
NormYear(y) ==
    LET year == y + 1900
    IN IF year < 1950 THEN year + 100 ELSE year

\* name.split(b"\0", 1)[0]
RECURSIVE UntilNul(_)
UntilNul(s) ==
    IF s = <<>> \/ s[1] = 0 THEN <<>> ELSE <<s[1]>> \o UntilNul(Tail(s))

\* bytes.decode("ascii"): a byte above 127 raises UnicodeDecodeError,
\* every other byte is the code point of the same number
AsciiDecodable(s) == \A k \in 1..Len(s) : s[k] < 128

\* typ.decode("ascii") for the one type byte
TypeString(b) ==
    IF b = 67 THEN "C" ELSE IF b = 78 THEN "N" ELSE IF b = 68 THEN "D"
    ELSE IF b = 76 THEN "L" ELSE "?"

\* lines 160-171: the descriptor loop.  chunks are the 32-byte chunks the
\* file holds after its header; a missing chunk is a short read.
RECURSIVE ReadFields(_, _, _)
ReadFields(chunks, fieldno, numfields) ==
    IF fieldno > numfields THEN [raised |-> NoErr, fields |-> <<>>]
    ELSE IF fieldno > Len(chunks)
    THEN [raised |-> Raise("struct.error", "descriptor"), fields |-> <<>>]
    ELSE LET c == chunks[fieldno]
             name == UntilNul(c.name)
         IN IF c.typ >= 128 \/ ~AsciiDecodable(name)
            THEN [raised |-> Raise("UnicodeDecodeError", "descriptor"),
                  fields |-> <<>>]
            ELSE IF TypeString(c.typ) \notin {CHAR, DATE, LOGICAL, NUMERAL}
            THEN [raised |-> Raise("ValueError", "fieldtype"), fields |-> <<>>]
            ELSE LET more == ReadFields(chunks, fieldno + 1, numfields)
                 IN [raised |-> more.raised,
                     fields |-> <<<<name, TypeString(c.typ), c.size, c.deci>>>>
                                    \o more.fields]

\* "_deletion_flag"
DeletionFlagName == <<95, 100, 101, 108, 101, 116, 105, 111, 110, 95, 102, 108, 97, 103>>

DeletionFlagField == <<DeletionFlagName, CHAR, 1, 0>>

\* lines 174-182: the exception raised for a terminator that is not b"\x0d".
\* The message is built with hex(terminator); terminator is a bytes object,
\* and hex() of one raises TypeError before ValueError is constructed.
TerminatorError == Raise("TypeError", "terminator")

\* line 196
FieldNames(fs) == [k \in 1..Len(fs) |-> fs[k][1]]

----------------------------------------------------------------------------
(* YDbfReader._defineEncoding *)

BuiltinEncoding(raw_lang) ==
    IF raw_lang \in DOMAIN ENCODINGS THEN ENCODINGS[raw_lang] ELSE "None"

\* lines 209-212
ChooseEncoding(builtin, explicit) ==
    IF Truthy(explicit) THEN explicit ELSE builtin

----------------------------------------------------------------------------
(* YDbfReader._makeActions *)

\* lines 109-130: the resolvers, tried in order; the first callable wins
Resolve(typ, size, dec, encoding) ==
    IF typ = CHAR /\ Truthy(encoding) THEN "dbf2py_unicode"
    ELSE IF typ = CHAR /\ ~Truthy(encoding) THEN "dbf2py_string"
    ELSE IF typ = NUMERAL /\ dec # 0 THEN "dbf2py_decimal"
    ELSE IF typ = NUMERAL /\ dec = 0 THEN "dbf2py_integer"
    ELSE IF typ = DATE THEN "dbf2py_date"
    ELSE IF typ = LOGICAL THEN "dbf2py_logic"
    ELSE "None"

\* lines 125-135: self.converters is a dict keyed by the field's NAME, filled
\* in field order, so a later field of the same name replaces the entry
RECURSIVE MakeConverters(_, _, _)
MakeConverters(fs, encoding, conv) ==
    IF fs = <<>> THEN [raised |-> NoErr, converters |-> conv]
    ELSE LET f == fs[1]
             action == Resolve(f[2], f[3], f[4], encoding)
         IN IF action = "None"
            THEN [raised |-> Raise("ValueError", "converter"), converters |-> conv]
            ELSE MakeConverters(Tail(fs), encoding,
                     [n \in (DOMAIN conv) \cup {f[1]} |->
                         IF n = f[1] THEN action ELSE conv[n]])

----------------------------------------------------------------------------
(* YDbfStrictReader.checkConsistency *)

\* os.stat(file_name)[6]: the number of bytes the file holds
PhysicalSize(f) ==
    IF f.complete THEN HeaderSize + HeaderSize * Len(f.descs) + Len(f.rest) ELSE 0

\* a variant that leaves the end-of-file marker out
SizeAgrees_NoMarker(r, f) ==
    PhysicalSize(f) = r.lenheader + r.numrec * r.recsize

\* lines 369-370
SizeAgrees(r, f) ==
    PhysicalSize(f) = r.lenheader + 1 + r.numrec * r.recsize

FieldBoundsOk(fs) ==
    \A k \in 1..Len(fs) :
        /\ fs[k][2] = NUMERAL => fs[k][3] < 20
        /\ fs[k][2] = CHAR => fs[k][3] < 255
        /\ fs[k][2] = LOGICAL => fs[k][3] = 1

\* the first assertion that fails, or "None"
CheckConsistency(r, f) ==
    IF ~(r.recsize > 1) THEN "recsize>1"
    ELSE IF r.sig \in {3, 4} /\ ~(r.recsize < 4000) THEN "recsize<4000"
    ELSE IF ~(r.recsize < 32 * 1024) THEN "recsize<32K"
    ELSE IF ~(r.numrec >= 0) THEN "numrec>=0"
    ELSE IF ~(r.numfields > 0) THEN "numfields>0"
    ELSE IF r.sig = 3 /\ ~(r.numfields < 128) THEN "numfields<128"
    ELSE IF r.sig = 4 /\ ~(r.numfields < 256) THEN "numfields<256"
    ELSE IF ~FieldBoundsOk(r.fields) THEN "fieldbounds"
    ELSE IF f.storage = "file" /\ ~SizeAgrees(r, f) THEN "size"
    ELSE "None"

----------------------------------------------------------------------------
(* YDbfReader.__init__ and the methods it calls, one action each *)

Unbuilt ==
    [explicit_encoding |-> "None", _fields |-> <<>>, fields |-> <<>>,
     builtin_fields |-> <<>>, builtin__fields |-> <<>>,
     numrec |-> 0, lenheader |-> 0, numfields |-> 0,
     field_names |-> <<>>, start_from |-> 0, stop_at |-> 0,
     recfmt |-> <<>>, recsize |-> 0, dt |-> <<>>,
     encoding |-> "None", builtin_encoding |-> "None",
     converters |-> <<>>, iterator |-> 0,
     sig |-> 0, raw_lang |-> 0]

\* lines 46-78.  Line 62 assigns self.fields = [] after lines 48-57, so the
\* caller's structure stays in self._fields only.
Construct ==
    /\ pc = "new"
    /\ reader' = [Unbuilt EXCEPT
                    !.explicit_encoding = input.encoding,
                    !._fields = IF input.fields # <<>>
                                THEN <<DeletionFlagField>> \o input.fields
                                ELSE <<>>,
                    !.fields = <<>>]
    /\ pc' = "readHeader"
    /\ UNCHANGED <<input, err, pos, gens, visits, dbf_str, result>>

Fail(e) ==
    /\ pc' = "failed"
    /\ err' = e

\* lines 137-196
ReadHeader ==
    /\ pc = "readHeader"
    /\ LET f == input.file
           year == NormYear(f.year)
           numfields == (f.lenheader - 33) \div 32
           read == ReadFields(f.descs, 1, numfields)
           tablePos == HeaderSize + HeaderSize * numfields
           terminator == IF Len(f.rest) >= 1 THEN <<f.rest[1]>> ELSE <<>>
           fields == <<DeletionFlagField>> \o read.fields
           useBuiltin == reader.fields = <<>>
           own == IF useBuiltin THEN Tail(fields) ELSE reader.fields
           own_ == IF useBuiltin THEN fields ELSE reader._fields
       IN IF ~f.complete
          THEN /\ Fail(Raise("struct.error", "header"))
               /\ UNCHANGED <<reader, pos>>
          ELSE IF ~ValidDate(year, f.month, f.day)
          THEN /\ Fail(Raise("ValueError", "date"))
               /\ pos' = HeaderSize
               /\ UNCHANGED reader
          ELSE IF f.sig \notin SUPPORTED_SIGNATURES
          THEN /\ Fail(Raise("ValueError", "signature"))
               /\ pos' = HeaderSize
               /\ reader' = [reader EXCEPT !.dt = <<year, f.month, f.day>>,
                                           !.sig = f.sig]
          ELSE IF read.raised # NoErr
          THEN /\ Fail(read.raised)
               /\ pos' = HeaderSize + HeaderSize * Len(read.fields)
               /\ reader' = [reader EXCEPT !.dt = <<year, f.month, f.day>>,
                                           !.sig = f.sig]
          ELSE IF terminator # <<13>>
          THEN /\ Fail(TerminatorError)
               /\ pos' = tablePos + Len(terminator)
               /\ reader' = [reader EXCEPT !.dt = <<year, f.month, f.day>>,
                                           !.sig = f.sig]
          ELSE /\ pc' = IF input.use_unicode THEN "defineEncoding"
                        ELSE "makeActions"
               /\ pos' = tablePos + 1
               /\ reader' = [reader EXCEPT
                    !.dt = <<year, f.month, f.day>>,
                    !.sig = f.sig,
                    !.builtin__fields = fields,
                    !.builtin_fields = Tail(fields),
                    !.fields = own,
                    !._fields = own_,
                    !.raw_lang = f.lang,
                    !.recfmt = [k \in 1..Len(own_) |-> own_[k][3]],
                    !.recsize = SumSizes(own_),
                    !.numrec = f.numrec,
                    !.lenheader = f.lenheader,
                    !.numfields = numfields,
                    !.stop_at = f.numrec,
                    !.field_names = FieldNames(own)]
               /\ UNCHANGED err
    /\ UNCHANGED <<input, gens, visits, dbf_str, result>>

\* lines 198-212
DefineEncoding ==
    /\ pc = "defineEncoding"
    /\ LET builtin == BuiltinEncoding(reader.raw_lang)
       IN IF builtin = "None" /\ reader.explicit_encoding = "None"
          THEN /\ Fail(Raise("ValueError", "encoding"))
               /\ reader' = [reader EXCEPT !.builtin_encoding = builtin]
          ELSE /\ pc' = "makeActions"
               /\ reader' = [reader EXCEPT
                    !.builtin_encoding = builtin,
                    !.encoding = ChooseEncoding(builtin, reader.explicit_encoding)]
               /\ UNCHANGED err
    /\ UNCHANGED <<input, pos, gens, visits, dbf_str, result>>

\* lines 90-135
MakeActions ==
    /\ pc = "makeActions"
    /\ LET made == MakeConverters(reader._fields, reader.encoding, <<>>)
       IN /\ reader' = [reader EXCEPT !.converters = made.converters]
          /\ IF made.raised # NoErr
             THEN Fail(made.raised)
             ELSE pc' = "postInit" /\ UNCHANGED err
    /\ UNCHANGED <<input, pos, gens, visits, dbf_str, result>>

\* YDbfReader.postInit (lines 86-88) does nothing;
\* YDbfStrictReader.postInit (lines 311-313) runs checkConsistency
PostInit ==
    /\ pc = "postInit"
    /\ LET failed == IF input.cls = "YDbfStrictReader"
                     THEN CheckConsistency(reader, input.file)
                     ELSE "None"
       IN IF failed # "None"
          THEN Fail(Raise("AssertionError", failed))
          ELSE pc' = "ready" /\ UNCHANGED err
    /\ UNCHANGED <<input, reader, pos, gens, visits, dbf_str, result>>

----------------------------------------------------------------------------
(* The converters of _makeActions (lines 91-107).  A converted value is    *)
(* [kind, enc, v]: v holds the bytes or code points, the integer, or the   *)
(* date; a decimal is held as <<dec>> \o the stripped digits it is parsed  *)
(* from; enc is the codec a text was decoded with.                         *)

Value(kind, enc, v) == [kind |-> kind, enc |-> enc, v |-> v]

Returned(val) == [raised |-> "None", value |-> val]

Raised(cls) == [raised |-> cls, value |-> Value("None", "None", <<>>)]

\* the codecs Python knows among the names used here
KnownCodecs == {ENCODINGS[c] : c \in DOMAIN ENCODINGS}

\* bytes.decode(encoding) fails on a byte the codec does not map: for ascii
\* every byte above 127.  The single-byte code pages of the catalog map
\* every byte that occurs in the modelled data.
DecodeFails(encoding, val) ==
    encoding = "ascii" /\ \E k \in 1..Len(val) : val[k] >= 128

\* int(b): an optional sign and at least one digit
IsIntLiteral(s) ==
    LET body == IF s # <<>> /\ s[1] \in {43, 45} THEN Tail(s) ELSE s
    IN IsDigitBytes(body)

IntValue(s) ==
    IF s[1] = 45 THEN 0 - DigitsValue(Tail(s))
    ELSE IF s[1] = 43 THEN DigitsValue(Tail(s))
    ELSE DigitsValue(s)

\* float(b): an optional sign, digits with at most one point, one digit at least
IsFloatLiteral(s) ==
    LET body == IF s # <<>> /\ s[1] \in {43, 45} THEN Tail(s) ELSE s
    IN /\ \A k \in 1..Len(body) : IsDigit(body[k]) \/ body[k] = 46
       /\ Cardinality({k \in 1..Len(body) : body[k] = 46}) <= 1
       /\ \E k \in 1..Len(body) : IsDigit(body[k])

dbf2py_date(val, size, dec) ==
    LET d == dbf2date(Some(val))
    IN IF d.raised # "None" THEN Raised(d.raised)
       ELSE IF d.value = <<>> THEN Returned(Value("None", "None", <<>>))
       ELSE Returned(Value("date", "None", d.value))

dbf2py_logic(val, size, dec) ==
    Returned(Value("bool", "None",
        IF Strip(val) \in {<<89>>, <<121>>, <<84>>, <<116>>} THEN <<1>> ELSE <<0>>))

dbf2py_unicode(val, size, dec, encoding) ==
    IF encoding \notin KnownCodecs THEN Raised("LookupError")
    ELSE IF DecodeFails(encoding, val) THEN Raised("UnicodeDecodeError")
    ELSE Returned(Value("str", encoding, RStrip(val)))

dbf2py_string(val, size, dec) == Returned(Value("bytes", "None", RStrip(val)))

dbf2py_integer(val, size, dec) ==
    LET s == Strip(val)
    IN IF s = <<>> THEN Returned(Value("int", "None", <<0>>))
       ELSE IF IsIntLiteral(s) THEN Returned(Value("int", "None", <<IntValue(s)>>))
       ELSE Raised("ValueError")

dbf2py_decimal(val, size, dec) ==
    LET s == Strip(val)
    IN IF s = <<>> THEN Returned(Value("decimal", "None", <<dec, 48>>))
       ELSE IF IsFloatLiteral(s) THEN Returned(Value("decimal", "None", <<dec>> \o s))
       ELSE Raised("ValueError")

Apply(conv, val, size, dec, encoding) ==
    IF conv = "dbf2py_unicode" THEN dbf2py_unicode(val, size, dec, encoding)
    ELSE IF conv = "dbf2py_string" THEN dbf2py_string(val, size, dec)
    ELSE IF conv = "dbf2py_decimal" THEN dbf2py_decimal(val, size, dec)
    ELSE IF conv = "dbf2py_integer" THEN dbf2py_integer(val, size, dec)
    ELSE IF conv = "dbf2py_date" THEN dbf2py_date(val, size, dec)
    ELSE dbf2py_logic(val, size, dec)

----------------------------------------------------------------------------
(* YDbfReader.records: the generator *)

\* self.fh.read(n) at position p: the bytes the file holds there, fewer
\* than n (or none) at its end.  Positions used by records() lie in `rest`.
ReadAt(f, p, n) ==
    LET base == HeaderSize + HeaderSize * Len(f.descs)
        first == p - base + 1
        last == IF p - base + n < Len(f.rest) THEN p - base + n ELSE Len(f.rest)
    IN IF first < 1 THEN <<>> ELSE SubSeq(f.rest, first, last)

\* unpack(self.recfmt, data): one byte string per field
RECURSIVE Unpack(_, _)
Unpack(recfmt, data) ==
    IF recfmt = <<>> THEN <<>>
    ELSE <<SubSeq(data, 1, recfmt[1])>>
             \o Unpack(Tail(recfmt), SubSeq(data, recfmt[1] + 1, Len(data)))

\* lines 253-256: the converter used for the k-th field is looked up in
\* self.converters by the field's name
ConverterOf(r, k) == r.converters[r._fields[k][1]]

\* a variant that never drops the deletion flag
Included_Always(name, show_deleted) == TRUE

\* line 266: the fields that go into the yielded dict
Included(name, show_deleted) == name # DeletionFlagName \/ show_deleted

\* lines 263-267: dict(...) over the fields in order; a later item of the
\* same name replaces the earlier one; the first converter that raises
\* ends the construction
RECURSIVE BuildDict(_, _, _, _, _)
BuildDict(r, record, k, show_deleted, acc) ==
    IF k > Len(r._fields) \/ k > Len(record) THEN [raised |-> "None", dict |-> acc]
    ELSE LET f == r._fields[k]
         IN IF ~Included(f[1], show_deleted)
            THEN BuildDict(r, record, k + 1, show_deleted, acc)
            ELSE LET c == Apply(ConverterOf(r, k), RStripSet(record[k], {0}),
                                f[3], f[4], r.encoding)
                 IN IF c.raised # "None" THEN [raised |-> c.raised, dict |-> acc]
                    ELSE BuildDict(r, record, k + 1, show_deleted,
                             [n \in (DOMAIN acc) \cup {f[1]} |->
                                 IF n = f[1] THEN c.value ELSE acc[n]])

\* lines 268-291: what leaves the generator for an exception of the dict
Reraised(cls) ==
    IF cls \in {"ValueError", "IndexError", "TypeError", "KeyError"}
    THEN "RuntimeError" ELSE cls

NoRecord == [raised |-> "None", dict |-> <<>>]

Visit(i, offset, data, outcome, built) ==
    [i |-> i, offset |-> offset, data |-> data, outcome |-> outcome,
     dict |-> built.dict]

\* lines 247-248
SeekStart(p, offset) == IF p # offset THEN offset ELSE p

\* lines 257-291: the loop from index i with the handle at p, up to the next
\* yield, the end of the range or an exception
RECURSIVE Scan(_, _, _, _, _, _)
Scan(r, f, show_deleted, stop, i, p) ==
    IF i >= stop
    THEN [st |-> "done", raised |-> "None", i |-> i, pos |-> p, seen |-> <<>>]
    ELSE LET data == ReadAt(f, p, r.recsize)
             p2 == p + Len(data)
         IN IF Len(data) # r.recsize
            THEN [st |-> "done", raised |-> "struct.error", i |-> i, pos |-> p2,
                  seen |-> <<Visit(i, p, data, "struct.error", NoRecord)>>]
            ELSE LET record == Unpack(r.recfmt, data)
                 IN IF ~show_deleted /\ record[1] # <<32>>
                    THEN LET more == Scan(r, f, show_deleted, stop, i + 1, p2)
                         IN [more EXCEPT !.seen =
                                <<Visit(i, p, data, "skipped", NoRecord)>> \o @]
                    ELSE LET built == BuildDict(r, record, 1, show_deleted, <<>>)
                         IN IF built.raised # "None"
                            THEN [st |-> "done", raised |-> Reraised(built.raised),
                                  i |-> i, pos |-> p2,
                                  seen |-> <<Visit(i, p, data, "raised", NoRecord)>>]
                            ELSE [st |-> "suspended", raised |-> "None",
                                  i |-> i + 1, pos |-> p2,
                                  seen |-> <<Visit(i, p, data, "yielded", built)>>]

\* how many generators of one reader are followed
MaxGens == 2

\* `yielded` is not a local of records(): for the generator of iter(reader)
\* it keeps the file offsets of the slots produced so far
NewGenerator(start_from, limit, show_deleted) ==
    [st |-> "new", start_from |-> start_from, limit |-> limit,
     show_deleted |-> show_deleted, i |-> 0, stop |-> 0, yielded |-> {}]

\* a generator that returned or raised: its frame and locals are gone
Exhausted ==
    [st |-> "done", start_from |-> NoneArg, limit |-> NoneArg,
     show_deleted |-> FALSE, i |-> 0, stop |-> 0, yielded |-> {}]

\* records(start_from, limit, show_deleted) is a generator function: the
\* call only creates the generator, nothing of the body runs before the
\* first next()
Records(start_from, limit, show_deleted) ==
    /\ pc = "ready"
    /\ Len(gens) < MaxGens
    /\ gens' = Append(gens, NewGenerator(start_from, limit, show_deleted))
    /\ UNCHANGED <<input, pc, err, reader, pos, visits, dbf_str, result>>

\* lines 214-217: __iter__ creates the generator once and keeps it in
\* self.iterator (0 stands for None, otherwise the generator's number)
Iter ==
    /\ pc = "ready"
    /\ IF reader.iterator = 0
       THEN /\ Len(gens) < MaxGens
            /\ gens' = Append(gens, NewGenerator(NoneArg, NoneArg, FALSE))
            /\ reader' = [reader EXCEPT !.iterator = Len(gens) + 1]
       ELSE UNCHANGED <<gens, reader>>
    /\ UNCHANGED <<input, pc, err, pos, visits, dbf_str, result>>

\* next(g): the body of records() from where it stood to its next yield.
\* The first next() runs lines 244-256 before the loop.  `visits` keeps the
\* slots read by this next(), each with the call's arguments, the end of
\* its range, whether this was the generator's first next(), and the
\* offsets the generator had produced before.
Pull(g) ==
    /\ pc = "ready"
    /\ g \in 1..Len(gens)
    /\ gens[g].st \in {"new", "suspended"}
    /\ LET fr == gens[g]
           first == fr.st = "new"
           start_from == IF first /\ ~fr.start_from.isNone
                         THEN fr.start_from.v ELSE reader.start_from
           offset == reader.lenheader + reader.recsize * start_from
           stop_at == IF first /\ ~fr.limit.isNone
                      THEN start_from + fr.limit.v ELSE reader.stop_at
           r2 == [reader EXCEPT !.start_from = start_from, !.stop_at = stop_at]
           run == IF first
                  THEN Scan(r2, input.file, fr.show_deleted, stop_at,
                            start_from, SeekStart(pos, offset))
                  ELSE Scan(r2, input.file, fr.show_deleted, fr.stop, fr.i, pos)
       IN /\ reader' = r2
          /\ pos' = run.pos
          /\ gens' = [gens EXCEPT ![g] =
                        IF run.st = "done" THEN Exhausted
                        ELSE [fr EXCEPT !.st = run.st, !.i = run.i,
                                        !.stop = IF first THEN stop_at ELSE fr.stop,
                                        !.yielded = @ \cup
                                            {run.seen[k].offset :
                                                k \in {n \in 1..Len(run.seen) :
                                                    /\ g = reader.iterator
                                                    /\ run.seen[n].outcome = "yielded"}}]]
          /\ visits' = [k \in 1..Len(run.seen) |->
                          [g |-> g, show_deleted |-> fr.show_deleted,
                           i |-> run.seen[k].i, offset |-> run.seen[k].offset,
                           data |-> run.seen[k].data,
                           outcome |-> run.seen[k].outcome,
                           dict |-> run.seen[k].dict,
                           first |-> first,
                           start_from |-> fr.start_from, limit |-> fr.limit,
                           stop |-> IF first THEN stop_at ELSE fr.stop,
                           before |-> fr.yielded]]
    /\ UNCHANGED <<input, pc, err, dbf_str, result>>

----------------------------------------------------------------------------
(* lib.dbf2date called on its own, and through a Date field of a record *)

NotCalled == [via |-> "None", raised |-> "None", value |-> <<>>]

CallDbf2date ==
    /\ pc = "idle"
    /\ result = NotCalled
    /\ LET d == dbf2date(dbf_str)
       IN result' = [via |-> "dbf2date", raised |-> d.raised, value |-> d.value]
    /\ UNCHANGED <<input, pc, err, reader, pos, gens, visits, dbf_str>>

\* reader.py lines 262-291 for a Date field holding the bytes dbf_str
DecodeDateField ==
    /\ pc = "idle"
    /\ result = NotCalled
    /\ ~dbf_str.isNone
    /\ LET c == dbf2py_date(RStripSet(dbf_str.v, {0}), Len(dbf_str.v), 0)
       IN result' = [via |-> "records", raised |-> Reraised(c.raised),
                     value |-> c.value.v]
    /\ UNCHANGED <<input, pc, err, reader, pos, gens, visits, dbf_str>>

----------------------------------------------------------------------------
(* The files and constructor arguments the model is run on *)

\* how many records the modelled files hold at most
MaxRecords == 3

Pad11(name) == name \o [k \in 1..(11 - Len(name)) |-> 0]

\* one 32-byte chunk of the descriptor table, as FIELD_DESCRIPTION_FORMAT
\* unpacks it
Desc(name, typ, size, deci) ==
    [name |-> Pad11(name), typ |-> typ, size |-> size, deci |-> deci]

RECURSIVE DescSizes(_)
DescSizes(ds) == IF ds = <<>> THEN 0 ELSE ds[1].size + DescSizes(Tail(ds))

Spaces(n) == [k \in 1..n |-> 32]

\* a file whose header length matches its descriptor table, as a DBF
\* writer produces it
MkFile(sig, numrec, lang, descs, rest, storage) ==
    [complete |-> TRUE, sig |-> sig, year |-> 96, month |-> 1, day |-> 1,
     numrec |-> numrec, lenheader |-> 33 + HeaderSize * Len(descs),
     reclen |-> 1 + DescSizes(descs), lang |-> lang,
     descs |-> descs, rest |-> rest, storage |-> storage]

Args(file, cls, fields, use_unicode, encoding) ==
    [file |-> file, cls |-> cls, fields |-> fields,
     use_unicode |-> use_unicode, encoding |-> encoding]

OneChar == <<Desc(<<65>>, 67, 1, 0)>>

Plain == MkFile(3, 1, 1, OneChar, <<13, 32, 65, 26>>, "noname")

Signatures == {2, 3, 4, 5, 48, 131}

MonthDays == {<<1, 1>>, <<0, 1>>, <<2, 29>>, <<12, 32>>}

\* what follows the descriptor table: a terminator and data, nothing at
\* all, or another byte where the terminator belongs
Tails == {<<13, 32, 65, 26>>, <<>>, <<0, 32, 65, 26>>, <<26>>}

FaultyTables ==
    {<<Desc(<<65>>, 88, 1, 0)>>, <<Desc(<<65>>, 200, 1, 0)>>,
     <<Desc(<<233>>, 67, 1, 0)>>,
     <<Desc(<<65>>, 67, 1, 0), Desc(<<66>>, 77, 10, 0)>>}

HeaderInputs ==
    {Args([Plain EXCEPT !.sig = s, !.year = y, !.month = md[1], !.day = md[2],
                        !.rest = t],
          "YDbfReader", <<>>, TRUE, "None") :
        s \in Signatures, y \in 0..255, md \in MonthDays, t \in Tails}
    \cup
    {Args([Plain EXCEPT !.sig = s, !.complete = FALSE, !.descs = <<>>,
                        !.rest = <<>>],
          "YDbfReader", <<>>, TRUE, "None") : s \in Signatures}
    \cup
    {Args([MkFile(s, 1, 1, ds, <<13, 32, 65, 26>>, "noname") EXCEPT !.month = m],
          "YDbfReader", <<>>, TRUE, "None") :
        s \in Signatures, ds \in FaultyTables, m \in {0, 1}}
    \cup
    \* a header that announces two descriptors in a file that ends after one
    {Args([Plain EXCEPT !.sig = s, !.lenheader = 97, !.rest = <<>>],
          "YDbfReader", <<>>, TRUE, "None") : s \in Signatures}

Overrides == {"None", "", "cp1251", "ascii"}

EncodingInputs ==
    {Args([Plain EXCEPT !.lang = l, !.sig = s], "YDbfReader", <<>>, u, e) :
        l \in 0..255, s \in {3, 48}, u \in BOOLEAN, e \in Overrides}

Classes == {"YDbfReader", "YDbfStrictReader"}

\* "noname": the handle has no name attribute; "file": os.stat(name)
\* succeeds; "gone": os.stat(name) raises OSError
Storages == {"noname", "file", "gone"}

StrictTables ==
    {OneChar, <<>>,
     <<Desc(<<65>>, 67, 1, 0), Desc(<<78>>, 78, 2, 0)>>,
     <<Desc(<<76>>, 76, 2, 0)>>, <<Desc(<<78>>, 78, 20, 0)>>}

\* a caller's field structure [(NAME, TYPE, SIZE, DECIMAL)]
ExplicitFields == <<<<<<66>>, NUMERAL, 2, 0>>>>

StrictInputs ==
    {Args(MkFile(s, n, l, ds,
                 <<13>> \o Spaces(n * (1 + DescSizes(ds)) + extra), st),
          c, fs, TRUE, "None") :
        s \in {3, 5}, n \in 0..MaxRecords, l \in {1, 255}, ds \in StrictTables,
        extra \in 0..2, st \in Storages, c \in Classes,
        fs \in {<<>>, ExplicitFields}}

Inputs == HeaderInputs \cup EncodingInputs \cup StrictInputs

----------------------------------------------------------------------------
(* Files with records, for iteration.  Slot i holds the digit of i in its  *)
(* fields, so that the bytes of one slot are those of no other.            *)

TwoFields == <<Desc(<<65>>, 67, 1, 0), Desc(<<78>>, 78, 2, 0)>>

\* two descriptors of the same name
SameName == <<Desc(<<65>>, 67, 1, 0), Desc(<<65>>, 78, 2, 0)>>

DateField == <<Desc(<<68>>, 68, 8, 0), Desc(<<76>>, 76, 1, 0)>>

IterTables == {TwoFields, SameName, DateField}

\* the bytes of slot i after its deletion flag; `bad` marks a slot whose
\* fields do not decode
Content(ds, i, bad) ==
    IF ds = DateField
    THEN (IF bad THEN <<50, 48, 50, 52, 49, 51, 48, 48 + i, 84>>
          ELSE <<50, 48, 50, 52, 48, 49, 48, 49 + i, 84>>)
    ELSE (IF bad THEN <<48 + i, 65, 48 + i>> ELSE <<48 + i, 32, 48 + i>>)

RECURSIVE Slots(_, _, _, _, _)
Slots(ds, i, n, deleted, bad) ==
    IF i >= n THEN <<>>
    ELSE <<IF i \in deleted THEN 42 ELSE 32>> \o Content(ds, i, i \in bad)
             \o Slots(ds, i + 1, n, deleted, bad)

\* <<deleted slots, slots that do not decode>>
Damage == {<<{}, {}>>, <<{0, 2}, {}>>, <<{0}, {1}>>}

IterFile(ds, dmg) ==
    MkFile(3, MaxRecords, 1, ds,
           <<13>> \o Slots(ds, 0, MaxRecords, dmg[1], dmg[2]) \o <<26>>, "noname")

IterInputs ==
    {Args(IterFile(ds, dmg), "YDbfReader", <<>>, TRUE, "None") :
        ds \in IterTables, dmg \in Damage}
    \cup
    {Args(IterFile(TwoFields, <<{1}, {}>>), "YDbfReader", <<>>, FALSE, "None")}

\* the calls of records() that are made: <<start_from, limit, show_deleted>>
Calls ==
    {<<NoneArg, NoneArg, FALSE>>, <<NoneArg, NoneArg, TRUE>>,
     <<Some(2), NoneArg, FALSE>>, <<Some(1), Some(1), TRUE>>,
     <<Some(2), Some(2), FALSE>>}

----------------------------------------------------------------------------
(* The inputs of lib.dbf2date *)

Years4 == {<<48, 48, 48, 48>>, <<49, 57, 48, 48>>, <<50, 48, 50, 51>>,
           <<50, 48, 50, 52>>, <<57, 57, 57, 57>>}

Months2 == {<<48, 48>>, <<48, 49>>, <<48, 50>>, <<48, 52>>, <<49, 50>>, <<49, 51>>}

Days2 == {<<48, 48>>, <<48, 49>>, <<50, 56>>, <<50, 57>>, <<51, 48>>,
          <<51, 49>>, <<51, 50>>}

DateInputs ==
    {NoneArg}
    \cup {Some(y \o m \o d) : y \in Years4, m \in Months2, d \in Days2}
    \cup {Some(s) : s \in {<<>>, Spaces(8), <<50, 48, 50, 52, 48, 49, 48>>,
                           <<50, 48, 50, 52, 48, 49, 48, 49, 48>>,
                           <<50, 48, 50, 52, 48, 49, 48, 32>>,
                           <<50, 48, 50, 52, 45, 48, 49, 49>>,
                           <<50, 48, 50, 52, 48, 49, 48, 49, 0>>,
                           <<50, 48, 50, 52, 49, 51, 48, 49, 0>>,
                           <<50, 48, 50, 52, 48, 49, 48, 0>>,
                           <<65, 66, 67, 68, 69, 70, 71, 72>>}}

----------------------------------------------------------------------------
(* Specifications *)

Start(in, at, d) ==
    /\ input = in
    /\ pc = at
    /\ err = NoErr
    /\ reader = Unbuilt
    /\ pos = 0
    /\ gens = <<>>
    /\ visits = <<>>
    /\ dbf_str = d
    /\ result = NotCalled

\* construction of a reader
Init == \E in \in Inputs : Start(in, "new", NoneArg)

Next == Construct \/ ReadHeader \/ DefineEncoding \/ MakeActions \/ PostInit

Spec == Init /\ [][Next]_vars

\* construction, then any calls of records() and iter() and any
\* interleaving of next() on the generators
InitIter == \E in \in IterInputs : Start(in, "new", NoneArg)

CallRecords == \E c \in Calls : Records(c[1], c[2], c[3])

PullAny == \E g \in 1..MaxGens : Pull(g)

NextIter ==
    \/ Construct \/ ReadHeader \/ DefineEncoding \/ MakeActions \/ PostInit
    \/ CallRecords \/ Iter \/ PullAny

SpecIter == InitIter /\ [][NextIter]_vars

\* lib.dbf2date
InitDate == \E d \in DateInputs : Start(Args(Plain, "YDbfReader", <<>>, TRUE, "None"), "idle", d)

NextDate == CallDbf2date \/ DecodeDateField

SpecDate == InitDate /\ [][NextDate]_vars

----------------------------------------------------------------------------
(* Properties *)

PastHeader == pc \notin {"new", "readHeader"}

PastEncoding == pc \in {"makeActions", "postInit", "ready"}

\* ValueError and its subclasses
IsValueError(cls) == cls \in {"ValueError", "UnicodeDecodeError"}

\* C1: a complete header whose signature byte is not 0x03, 0x04 or 0x05,
\* whatever its other bytes, makes the constructor fail with ValueError and
\* no reader is produced; for 0x03, 0x04, 0x05 the signature check is never
\* what fails.
C1_UnsupportedSignature ==
    (PastHeader /\ input.file.complete) =>
        /\ input.file.sig \notin {3, 4, 5} =>
              pc = "failed" /\ IsValueError(err.cls)
        /\ input.file.sig \in {3, 4, 5} => err.at # "signature"

C1_Witness ==
    /\ pc = "failed"
    /\ input.file.sig = 48
    /\ err = Raise("ValueError", "signature")

\* C2: with use_unicode, (a) a catalogued language code and no override
\* give the catalogue's encoding, (b) an override that was supplied is the
\* encoding whether or not the code is catalogued, (c) an uncatalogued code
\* and no override fail with ValueError; without use_unicode the encoding
\* stays None.
C2_EncodingResolution ==
    LET lang == input.file.lang
        override == input.encoding
    IN /\ (PastEncoding /\ input.use_unicode /\ override = "None"
             /\ lang \in DOMAIN ENCODINGS) => reader.encoding = ENCODINGS[lang]
       /\ (PastEncoding /\ input.use_unicode /\ override # "None")
             => reader.encoding = override
       /\ (input.use_unicode /\ override = "None" /\ lang \notin DOMAIN ENCODINGS)
             => /\ ~PastEncoding
                /\ (pc = "failed" /\ err.at = "encoding") => err.cls = "ValueError"
       /\ ~input.use_unicode => reader.encoding = "None"

\* the names of the fields the file's header describes
FileFieldNames == {reader.builtin_fields[k][1] : k \in 1..Len(reader.builtin_fields)}

DeletionFlagOf(v) == IF v.data = <<>> THEN <<>> ELSE <<v.data[1]>>

\* whether every field of a slot's bytes converts without an exception
SlotDecodes(v) ==
    LET record == Unpack(reader.recfmt, v.data)
    IN \A k \in 1..Len(reader._fields) :
          Included(reader._fields[k][1], v.show_deleted) =>
              Apply(ConverterOf(reader, k), RStripSet(record[k], {0}),
                    reader._fields[k][3], reader._fields[k][4],
                    reader.encoding).raised = "None"

\* C3 as stated: a visited slot whose deletion flag is not a space yields
\* nothing unless show_deleted; with show_deleted every visited slot yields
\* a record, which holds '_deletion_flag'; a record yielded without
\* show_deleted has exactly the file's field names as keys.
C3_Original ==
    \A n \in 1..Len(visits) :
        LET v == visits[n]
        IN /\ (~v.show_deleted /\ DeletionFlagOf(v) # <<32>>)
                 => v.outcome # "yielded"
           /\ v.show_deleted
                 => v.outcome = "yielded" /\ DeletionFlagName \in DOMAIN v.dict
           /\ (v.outcome = "yielded" /\ ~v.show_deleted)
                 => /\ DeletionFlagName \notin DOMAIN v.dict
                    /\ DOMAIN v.dict = FileFieldNames

\* C3, amended: as above, except that with show_deleted a visited slot
\* yields its record only if the file holds all record_size bytes of it and
\* every field converts; a short slot ends the sequence with struct.error,
\* a slot with a field that does not convert ends it with that error, and
\* neither yields a record.
C3_DeletedRecords ==
    \A n \in 1..Len(visits) :
        LET v == visits[n]
        IN /\ (~v.show_deleted /\ DeletionFlagOf(v) # <<32>>)
                 => v.outcome # "yielded"
           /\ v.show_deleted
                 => /\ v.outcome =
                         (IF Len(v.data) # reader.recsize THEN "struct.error"
                          ELSE IF ~SlotDecodes(v) THEN "raised"
                          ELSE "yielded")
                    /\ v.outcome = "yielded"
                          => DeletionFlagName \in DOMAIN v.dict
           /\ (v.outcome = "yielded" /\ ~v.show_deleted)
                 => /\ DeletionFlagName \notin DOMAIN v.dict
                    /\ DOMAIN v.dict = FileFieldNames

\* a deleted record that show_deleted lets through
C3_Witness ==
    \E n \in 1..Len(visits) :
        /\ visits[n].show_deleted
        /\ DeletionFlagOf(visits[n]) = <<42>>
        /\ visits[n].outcome = "yielded"
        /\ DeletionFlagName \in DOMAIN visits[n].dict

\* the size the header announces: header_length + 1 + record_count *
\* record_size, with record_size 1 plus the widths of the file's fields
AnnouncedSize ==
    input.file.lenheader + 1
        + input.file.numrec * (1 + DescSizes(input.file.descs))

SizeKnown == input.file.storage = "file"

\* the errors of the stages that come before postInit
InitErrors ==
    {"header", "date", "signature", "descriptor", "fieldtype", "terminator",
     "encoding", "converter"}

\* C4: when the storage tells the file's size and it is not header_length +
\* 1 + record_count * record_size, YDbfStrictReader is not constructed, and
\* unless a stage before postInit has failed with its own error the
\* failure is an AssertionError; YDbfReader never fails with
\* AssertionError; the size check fails only for the strict reader on a
\* file whose known size differs.
C4_SizeCheck ==
    /\ (input.cls = "YDbfStrictReader" /\ SizeKnown
          /\ PhysicalSize(input.file) # AnnouncedSize)
          => /\ pc # "ready"
             /\ pc = "failed"
                   => err.cls = "AssertionError" \/ err.at \in InitErrors
    /\ (pc = "failed" /\ err.at = "size")
          => /\ err.cls = "AssertionError"
             /\ input.cls = "YDbfStrictReader"
             /\ SizeKnown
             /\ PhysicalSize(input.file) # AnnouncedSize
    /\ input.cls = "YDbfReader" => err.cls # "AssertionError"

C4_Witness ==
    /\ pc = "failed"
    /\ err = Raise("AssertionError", "size")
    /\ PhysicalSize(input.file) = AnnouncedSize + 1

\* C5: a field structure supplied to the constructor replaces the file's
\* own: reader.fields, reader.field_names and the converter table are those
\* of the supplied structure.
C5_ExplicitFields ==
    (pc = "ready" /\ input.fields # <<>>) =>
        /\ reader.fields = input.fields
        /\ reader.field_names = FieldNames(input.fields)
        /\ DOMAIN reader.converters =
              {DeletionFlagName} \cup {input.fields[k][1] : k \in 1..Len(input.fields)}

\* C6: the creation year is 1900 + y when that is 1950 or later and
\* 2000 + y otherwise, for every year byte y.
C6_YearNormalization ==
    reader.dt # <<>> =>
        LET y == input.file.year
        IN reader.dt[1] = (IF 1900 + y >= 1950 THEN 1900 + y ELSE 2000 + y)

C6_Witness ==
    /\ reader.dt # <<>>
    /\ input.file.year = 49
    /\ reader.dt[1] = 2049

\* the cases in which dbf2date answers None
NullCase(s) ==
    s.isNone \/ Len(s.v) # 8 \/ \E k \in 1..Len(s.v) : s.v[k] \notin 48..57

Group(s, from, to) == DigitsValue(SubSeq(s.v, from, to))

IsCalendarDate(s) ==
    /\ Group(s, 1, 4) >= 1
    /\ Group(s, 5, 6) \in 1..12
    /\ Group(s, 7, 8) \in 1..DaysInMonth(Group(s, 1, 4), Group(s, 5, 6))

\* what a Date field hands to dbf2date: its bytes without trailing NULs
FieldBytes == Some(RStripSet(dbf_str.v, {0}))

\* C7 as stated: dbf2date never raises; it returns None exactly for None, a
\* non-digit or a length other than 8, and otherwise the date of the digit
\* groups; decoding a Date field never fails.
C7_Original ==
    /\ result.via = "dbf2date" =>
          /\ result.raised = "None"
          /\ result.value =
                (IF NullCase(dbf_str) THEN <<>>
                 ELSE <<Group(dbf_str, 1, 4), Group(dbf_str, 5, 6), Group(dbf_str, 7, 8)>>)
    /\ result.via = "records" => result.raised = "None"

\* C7, amended: dbf2date returns None exactly for None, a non-digit or a
\* length other than 8; for 8 digits that are a calendar date it returns
\* that date; for 8 digits that are none (year 0000, month 00 or above 12,
\* a day the month does not have) it raises ValueError, and decoding such a
\* Date field fails with RuntimeError.
C7_ParseDate ==
    /\ result.via = "dbf2date" =>
          IF NullCase(dbf_str)
          THEN result.raised = "None" /\ result.value = <<>>
          ELSE IF IsCalendarDate(dbf_str)
          THEN /\ result.raised = "None"
               /\ result.value =
                     <<Group(dbf_str, 1, 4), Group(dbf_str, 5, 6), Group(dbf_str, 7, 8)>>
          ELSE result.raised = "ValueError"
    /\ result.via = "records" =>
          IF NullCase(FieldBytes) THEN result.raised = "None" /\ result.value = <<>>
          ELSE IF IsCalendarDate(FieldBytes)
          THEN /\ result.raised = "None"
               /\ result.value = <<Group(FieldBytes, 1, 4), Group(FieldBytes, 5, 6),
                                   Group(FieldBytes, 7, 8)>>
          ELSE result.raised = "RuntimeError"

\* 8 digits that are no calendar date
C7_Witness ==
    /\ result.via = "dbf2date"
    /\ dbf_str = Some(<<50, 48, 50, 51, 48, 50, 50, 57>>)
    /\ result.raised = "ValueError"

\* the converter the ordered rules select for a field of its own
OwnConverter(f) ==
    IF f[2] = "C" THEN (IF Truthy(reader.encoding) THEN "dbf2py_unicode"
                        ELSE "dbf2py_string")
    ELSE IF f[2] = "N" THEN (IF f[4] # 0 THEN "dbf2py_decimal" ELSE "dbf2py_integer")
    ELSE IF f[2] = "D" THEN "dbf2py_date"
    ELSE "dbf2py_logic"

\* C8: for every slot records() decodes, the converter applied to each
\* field's bytes is the one the rules select for that field's own type,
\* decimal count and encoding, also when field names repeat.
C8_OwnConverter ==
    \A n \in 1..Len(visits) :
        visits[n].outcome \in {"yielded", "raised"} =>
            \A k \in 1..Len(reader._fields) :
                ConverterOf(reader, k) = OwnConverter(reader._fields[k])

BadTerminator == input.file.rest = <<>> \/ input.file.rest[1] # 13

\* C9: a byte other than 0x0D after the last descriptor, or none, makes the
\* constructor fail with ValueError, and no reader is produced.
C9_BadTerminator ==
    /\ BadTerminator => pc # "ready"
    /\ (pc = "failed" /\ err.at = "terminator") => IsValueError(err.cls)

\* C10: the bytes decoded for a record slot i (i below the record count),
\* by whichever generator and after whatever steps of the reader's other
\* generators, are the record_size bytes at offset header_length +
\* record_size * i.
C10_SlotBytes ==
    \A n \in 1..Len(visits) :
        LET v == visits[n]
            record_size == 1 + DescSizes(input.file.descs)
            at == input.file.lenheader + record_size * v.i
        IN (v.i < input.file.numrec
               /\ v.outcome \in {"yielded", "skipped", "raised"}) =>
              /\ v.offset = at
              /\ v.data = ReadAt(input.file, at, record_size)

\* the slots read by the last next() on the generator of iter(reader)
IterVisits == {n \in 1..Len(visits) : visits[n].g = reader.iterator}

\* what iter(reader) has produced is not produced again, and one next()
\* goes through the slot indices upwards
ForwardOnly ==
    \A n \in IterVisits :
        /\ visits[n].outcome = "yielded" => visits[n].offset \notin visits[n].before
        /\ \A m \in IterVisits : m < n => visits[m].i < visits[n].i

\* iter(reader) keeps returning the generator it returned first; that
\* generator goes on from the index where it stood, and stays finished
\* once it is finished
SamePass ==
    reader.iterator # 0 =>
        /\ reader'.iterator = reader.iterator
        /\ gens[reader.iterator].st = "done"
              => gens'[reader.iterator] = gens[reader.iterator]
        /\ (gens[reader.iterator].st = "suspended"
               /\ gens'[reader.iterator] # gens[reader.iterator])
              => \A n \in 1..Len(visits') : visits'[n].i >= gens[reader.iterator].i

\* C11: iterating the reader is single-pass and forward-only: every
\* iter(reader) is the same sequence, its slot indices go strictly upwards,
\* a record it has produced is never produced by it again, and once it is
\* exhausted it yields nothing more.
C11_SinglePass == [](ForwardOnly) /\ [][SamePass]_vars

\* C12: a records(start_from, limit) call with both arguments given only
\* reads slot indices i with start_from <= i < min(start_from + limit,
\* record_count); it attempts no read at or beyond the record count.
C12_RangeWithinFile ==
    \A n \in 1..Len(visits) :
        LET v == visits[n]
            upto == IF v.start_from.v + v.limit.v < input.file.numrec
                    THEN v.start_from.v + v.limit.v ELSE input.file.numrec
        IN (~v.start_from.isNone /\ ~v.limit.isNone) =>
              /\ v.start_from.v <= v.i
              /\ v.i < upto

\* C13: whatever records() calls came before, a call without start_from
\* begins at slot 0 and a call without limit has its range end at
\* record_count and reads no slot at or beyond it.
C13_FreshCall ==
    \A n \in 1..Len(visits) :
        LET v == visits[n]
        IN /\ (v.start_from.isNone /\ v.first /\ n = 1) => v.i = 0
           /\ v.limit.isNone => (v.stop = input.file.numrec
                                   /\ v.i < input.file.numrec)

====
